---- MODULE Spec2Model ----
(***************************************************************************)
(* State-machine model of dev/invoke_solaria.py: a single-shot script that *)
(* loads an API key, assembles a prompt from a seed document and a random  *)
(* fragment, calls the chat-completion API once and persists the answer    *)
(* with a metadata record.  Successive runs share the file system.         *)
(*                                                                         *)
(* Every blocking call (pip, input, the API request) and every open/write  *)
(* pair is two steps, so that the process can be killed in between.        *)
(*                                                                         *)
(* Text that the script only copies is an atomic string; text that it      *)
(* takes apart or puts together (the key, paths, file contents, the        *)
(* prompt) is a sequence of tokens.  An optional value (Python None) is a  *)
(* sequence of length 0 or 1.                                              *)
(***************************************************************************)
EXTENDS Integers, Sequences, FiniteSets, TLC

VARIABLES
  pc,             \* position of the running script, or how it ended
  exitStatus,     \* process exit status once ended, -1 while running
  run,            \* number of the current invocation
  trace,          \* what the current invocation did to the outside, in order
  ambient,        \* OPENAI_API_KEY in the environment the run was started from
  stdoutOk,       \* standard output can encode the non-ASCII messages
  installed,      \* importable packages (persists across runs)
  orphans,        \* packages a pip is still installing for a killed script
  envExists,      \* Path(".env").exists()
  envLines,       \* raw text after "OPENAI_API_KEY=" of each such line of .env
  osEnv,          \* os.environ.get("OPENAI_API_KEY") of the process, optional
  seedExists,     \* seed_path.exists()
  motdNames,      \* names of the entries of motd_fragments/ (empty when absent)
  dirs,           \* which of scrolls/ and logs/ exist
  scrollDir,      \* file name -> content, for scrolls/
  logDir,         \* file name -> content, for logs/
  api_key,        \* what input() returned, stripped
  openai_api_key, \* openai.api_key, optional
  seed_packet,
  motd_fragment,
  selected_motd,
  kairos_id,
  user_prompt,
  response,
  output_text,
  emptyKeyRun     \* 0, or the run that wrote an empty key to .env

vars == <<pc, exitStatus, run, trace, ambient, stdoutOk, installed, orphans,
          envExists,
          envLines, osEnv, seedExists, motdNames, dirs, scrollDir, logDir,
          api_key, openai_api_key, seed_packet, motd_fragment, selected_motd,
          kairos_id, user_prompt, response, output_text, emptyKeyRun>>

\* what stays the same during one run
runVars == <<run, ambient, stdoutOk>>

envFile == <<envExists, envLines, emptyKeyRun>>

inputFiles == <<seedExists, motdNames>>

outFiles == <<dirs, scrollDir, logDir>>

pkgVars == <<installed, orphans>>

fsVars == <<pkgVars, envFile, inputFiles, outFiles>>

localVars == <<api_key, openai_api_key, seed_packet, motd_fragment,
               selected_motd, kairos_id, user_prompt, response, output_text>>

(***************************************************************************)
(* Bounds and input domains.                                               *)
(***************************************************************************)
MaxRuns == 2

\* what the operator may type at the prompt, and what a pre-existing .env
\* may hold after "OPENAI_API_KEY="
KeyTexts == { <<>>, <<"", " ">>, <<" ", "k", "\t">>,
              <<"k", "", "#">> }

\* OPENAI_API_KEY in the environment the script is started from
AmbientKeys == { <<>>, << <<>> >>, << <<"k">> >> }

Packages == {"openai", "dotenv"}

MotdEntries == {"a.md", "b.md", "notes.txt"}

\* the fragment directories a run may find
MotdDirs == { {}, {"notes.txt"}, MotdEntries }

Ids == {"0a1b2c3d", "deadbeef"}

Timestamps == {"2025-01-01T00:00:00Z"}

SeedText == "Hello"

\* texts the model may answer with; the second imitates a scroll header
OutputTexts == { <<"I", " ", "am">>,
                 <<"**Kairos ID:**", " ", "ffffffff", "\n">> }

None == <<>>
Some(v) == <<v>>

\* Python truthiness of an optional string
Truthy(opt) == opt # None /\ opt[1] # <<>>

(***************************************************************************)
(* str.strip() on a sequence of characters.                                *)
(***************************************************************************)
\* The characters str.isspace and the \s of a pattern accept.  Those the
\* module's syntax cannot hold stand as their code point.
AsciiSpace == {" ", "\t", "\n", "\r", "\f"}

\* U+000B VT
VT == ""

\* U+001C..U+001F: file, group, record and unit separator
Separators == {"", "", "", ""}

\* U+0085 NEL
NEL == ""

\* U+00A0 no-break space
NBSP == " "

\* U+1680 and the blanks of the general punctuation block
UnicodeSpace ==
  {" ", "U+2000", "U+2001", "U+2002", "U+2003", "U+2004", "U+2005", "U+2006",
   "U+2007", "U+2008", "U+2009", "U+200A", "U+2028", "U+2029", "U+202F",
   "U+205F", "U+3000"}

WhiteSpace == AsciiSpace \cup {VT, NEL, NBSP} \cup Separators \cup UnicodeSpace

IsSpace(c) == c \in WhiteSpace

RECURSIVE LStrip(_)
LStrip(s) == IF s # <<>> /\ IsSpace(Head(s)) THEN LStrip(Tail(s)) ELSE s

RECURSIVE RStrip(_)
RStrip(s) ==
  IF s # <<>> /\ IsSpace(s[Len(s)]) THEN RStrip(SubSeq(s, 1, Len(s) - 1)) ELSE s

Strip(s) == RStrip(LStrip(s))

(***************************************************************************)
(* load_dotenv on an unquoted value: white space after "=" is skipped (not *)
(* a line end), an inline comment (white space followed by #) is cut,      *)
(* trailing white space goes.                                              *)
(***************************************************************************)
\* [^\S\r\n]
IsBlank(c) == IsSpace(c) /\ c \notin {"\n", "\r"}

RECURSIVE SkipBlanks(_)
SkipBlanks(s) ==
  IF s # <<>> /\ IsBlank(Head(s)) THEN SkipBlanks(Tail(s)) ELSE s

CommentStarts(s) ==
  { i \in 1..Len(s) :
      /\ IsSpace(s[i])
      /\ \E j \in (i + 1)..Len(s) :
           /\ s[j] = "#"
           /\ \A m \in i..(j - 1) : IsSpace(s[m]) }

CutComment(s) ==
  IF CommentStarts(s) = {} THEN s
  ELSE LET i == CHOOSE x \in CommentStarts(s) :
                  \A y \in CommentStarts(s) : x <= y
       IN  SubSeq(s, 1, i - 1)

ParseValue(raw) == RStrip(CutComment(SkipBlanks(raw)))

\* the value .env binds to OPENAI_API_KEY: the last such line wins
DotenvValue(lines) ==
  IF lines = <<>> THEN None ELSE Some(ParseValue(lines[Len(lines)]))

\* load_dotenv(override=False): a variable already set is left alone
LoadDotenv(env, exists, lines) ==
  IF env # None \/ ~exists THEN env ELSE DotenvValue(lines)

(***************************************************************************)
(* Initial state: the script starts in some environment, nothing written.  *)
(***************************************************************************)
EmptyDir == [n \in {} |-> <<>>]

\* no response received yet
NoResponse == [pending |-> TRUE]

Init ==
  /\ pc = "install_openai"
  /\ exitStatus = -1
  /\ run = 1
  /\ trace = <<>>
  /\ installed \in {{}, Packages}
  /\ orphans = {}
  /\ envExists \in BOOLEAN
  /\ envLines \in IF envExists THEN {<<>>} \cup { <<t>> : t \in KeyTexts }
                  ELSE {<<>>}
  /\ ambient \in AmbientKeys
  /\ stdoutOk \in BOOLEAN
  /\ osEnv = ambient
  /\ seedExists \in BOOLEAN
  /\ motdNames \in MotdDirs
  /\ dirs = {}
  /\ scrollDir = EmptyDir
  /\ logDir = EmptyDir
  /\ api_key = <<>>
  /\ openai_api_key = None
  /\ seed_packet = ""
  /\ motd_fragment = ""
  /\ selected_motd = <<>>
  /\ kairos_id = ""
  /\ user_prompt = <<>>
  /\ response = NoResponse
  /\ output_text = <<>>
  /\ emptyKeyRun = 0

(***************************************************************************)
(* Ways the process ends.                                                  *)
(***************************************************************************)
Terminal == {"exit_config", "exit_notfound", "exit_transport", "uncaught",
             "killed", "done"}

\* sys.exit(1)
SysExit(where) == pc' = where /\ exitStatus' = 1

\* an exception nobody catches: traceback, status 1
Uncaught == pc' = "uncaught" /\ exitStatus' = 1

Goto(p) == pc' = p /\ UNCHANGED exitStatus

\* an entry of the trace: what was done, and to which file or package
Ev(op) == <<op, <<>> >>

Emit(e) == trace' = Append(trace, e)

Positions(op) == { i \in 1..Len(trace) : trace[i][1] = op }

Count(op) == Cardinality(Positions(op))

Has(op) == Positions(op) # {}

\* print of a message with a non-ASCII character, then sys.exit(1); the
\* print raises UnicodeEncodeError when standard output cannot encode it
PrintAndExit(where) == IF stdoutOk THEN SysExit(where) ELSE Uncaught

(***************************************************************************)
(* Step 1: install_package("openai"), then install_package("dotenv").  A   *)
(* package that cannot be imported is installed with pip, a child process  *)
(* the script waits for; check_call raises when pip fails.  A kill of the    *)
(* script alone leaves its pip running, a kill of the process group ends   *)
(* both.  Several left-over pips of one package behave as one.             *)
(***************************************************************************)
ImportOrPip(package_name, here, wait, next) ==
  /\ pc = here
  /\ IF package_name \in installed
       THEN Goto(next) /\ UNCHANGED trace
       ELSE Goto(wait) /\ Emit(<<"pip", <<package_name>> >>)
  /\ UNCHANGED <<runVars, fsVars, osEnv, localVars>>

PipEnds(package_name, wait, next) ==
  /\ pc = wait
  /\ \/ installed' = installed \cup {package_name} /\ Goto(next)
     \/ UNCHANGED installed /\ Uncaught
  /\ UNCHANGED <<runVars, trace, orphans, envFile, inputFiles, outFiles,
                 osEnv, localVars>>

\* the pip of a killed script comes to its end
OrphanPipEnds ==
  /\ \E package_name \in orphans :
       /\ orphans' = orphans \ {package_name}
       /\ \/ installed' = installed \cup {package_name}
          \/ UNCHANGED installed
  /\ UNCHANGED <<pc, exitStatus, runVars, trace, envFile, inputFiles,
                 outFiles, osEnv, localVars>>

InstallOpenai ==
  ImportOrPip("openai", "install_openai", "pip_openai", "install_dotenv")

PipOpenai == PipEnds("openai", "pip_openai", "install_dotenv")

InstallDotenv == ImportOrPip("dotenv", "install_dotenv", "pip_dotenv", "cred")

PipDotenv == PipEnds("dotenv", "pip_dotenv", "cred")

(***************************************************************************)
(* Step 2: if .env does not exist, prompt for the key and write it.        *)
(***************************************************************************)
\* variant: the prompt does not look whether .env is already there
ShowPrompt_Always ==
  /\ pc = "cred"
  /\ Emit(Ev("prompt"))
  /\ Goto("input")
  /\ UNCHANGED <<runVars, fsVars, osEnv, localVars>>

\* if not env_path.exists(): print, and input() starts to wait
ShowPrompt ==
  /\ pc = "cred"
  /\ ~envExists
  /\ Emit(Ev("prompt"))
  /\ Goto("input")
  /\ UNCHANGED <<runVars, fsVars, osEnv, localVars>>

EnvPresent ==
  /\ pc = "cred"
  /\ envExists
  /\ Goto("load")
  /\ UNCHANGED <<runVars, trace, fsVars, osEnv, localVars>>

\* api_key = input(...).strip()
InputReturns ==
  /\ pc = "input"
  /\ \E typed \in KeyTexts : api_key' = Strip(typed)
  /\ Goto("open_env")
  /\ UNCHANGED <<runVars, trace, fsVars, osEnv, openai_api_key, seed_packet,
                 motd_fragment, selected_motd, kairos_id, user_prompt,
                 response, output_text>>

\* input() raises EOFError when standard input is closed
InputEof ==
  /\ pc = "input"
  /\ Uncaught
  /\ UNCHANGED <<runVars, trace, fsVars, osEnv, localVars>>

\* variant: an empty answer is not written, .env is not created
OpenEnv_SkipEmpty ==
  /\ pc = "open_env"
  /\ IF api_key = <<>>
       THEN /\ Goto("load")
            /\ UNCHANGED <<envExists, envLines, trace>>
       ELSE /\ envExists' = TRUE
            /\ envLines' = <<>>
            /\ Emit(Ev("open_env"))
            /\ Goto("write_env")
  /\ UNCHANGED <<runVars, pkgVars, emptyKeyRun, inputFiles, outFiles, osEnv,
                 localVars>>

\* open(env_path, "w"): .env exists and is empty
OpenEnv ==
  /\ pc = "open_env"
  /\ envExists' = TRUE
  /\ envLines' = <<>>
  /\ Emit(Ev("open_env"))
  /\ Goto("write_env")
  /\ UNCHANGED <<runVars, pkgVars, emptyKeyRun, inputFiles, outFiles, osEnv,
                 localVars>>

\* f.write(f"OPENAI_API_KEY={api_key}\n")
WriteEnv ==
  /\ pc = "write_env"
  /\ envLines' = <<api_key>>
  /\ emptyKeyRun' = IF api_key = <<>> THEN run ELSE emptyKeyRun
  /\ Emit(Ev("write_env"))
  /\ Goto("load")
  /\ UNCHANGED <<runVars, pkgVars, envExists, inputFiles, outFiles, osEnv,
                 localVars>>

\* load_dotenv(dotenv_path=env_path); openai.api_key = os.getenv(...)
LoadKey ==
  /\ pc = "load"
  /\ osEnv' = LoadDotenv(osEnv, envExists, envLines)
  /\ openai_api_key' = osEnv'
  /\ Emit(Ev("load"))
  /\ Goto("check")
  /\ UNCHANGED <<runVars, fsVars, api_key, seed_packet, motd_fragment,
                 selected_motd, kairos_id, user_prompt, response, output_text>>

\* variant: only a missing key aborts (is None), an empty one passes
CheckKey_OnlyNone ==
  /\ pc = "check"
  /\ IF openai_api_key # None THEN Goto("mkdir_scrolls") ELSE Goto("no_key")
  /\ UNCHANGED <<runVars, trace, fsVars, osEnv, localVars>>

\* if not openai.api_key:
CheckKey ==
  /\ pc = "check"
  /\ IF Truthy(openai_api_key) THEN Goto("mkdir_scrolls") ELSE Goto("no_key")
  /\ UNCHANGED <<runVars, trace, fsVars, osEnv, localVars>>

\* print("... API key not found. Aborting."); sys.exit(1)
ReportNoKey ==
  /\ pc = "no_key"
  /\ PrintAndExit("exit_config")
  /\ UNCHANGED <<runVars, trace, fsVars, osEnv, localVars>>

(***************************************************************************)
(* Step 3: paths.  A path is a sequence of components, a component a       *)
(* sequence of tokens.                                                     *)
(***************************************************************************)
base_dir == << <<"repo">> >>

seed_path ==
  base_dir \o << <<"seed_packets">>, <<"SolariaSeedPacket", ".md">> >>

scroll_dir == base_dir \o << <<"scrolls">> >>

log_dir == base_dir \o << <<"logs">> >>

ScrollName(id) == <<"SCROLL_", id, ".md">>

LogName(id) == <<"log_", id, ".json">>

ScrollFile(id) == scroll_dir \o <<ScrollName(id)>>

LogFile(id) == log_dir \o <<LogName(id)>>

\* Path.relative_to: the path without the components of its ancestor
RelativeTo(path, anc) == SubSeq(path, Len(anc) + 1, Len(path))

\* str(path) of a relative path: the components joined by "/"
RECURSIVE PathStr(_)
PathStr(path) ==
  IF path = <<>> THEN <<>>
  ELSE IF Len(path) = 1 THEN path[1]
  ELSE path[1] \o <<"/">> \o PathStr(Tail(path))

\* scroll_dir.mkdir(parents=True, exist_ok=True)
MkScrollDir ==
  /\ pc = "mkdir_scrolls"
  /\ dirs' = dirs \cup {"scrolls"}
  /\ Goto("mkdir_logs")
  /\ UNCHANGED <<runVars, trace, pkgVars, envFile, inputFiles, scrollDir,
                 logDir, osEnv, localVars>>

\* log_dir.mkdir(parents=True, exist_ok=True)
MkLogDir ==
  /\ pc = "mkdir_logs"
  /\ dirs' = dirs \cup {"logs"}
  /\ Goto("seed")
  /\ UNCHANGED <<runVars, trace, pkgVars, envFile, inputFiles, scrollDir,
                 logDir, osEnv, localVars>>

(***************************************************************************)
(* Step 4: the seed packet is required.                                    *)
(***************************************************************************)
\* variant: a missing seed is reported but the run goes on without it
LoadSeed_NoExit ==
  /\ pc = "seed"
  /\ seed_packet' = IF seedExists THEN SeedText ELSE ""
  /\ Goto("motd")
  /\ UNCHANGED <<runVars, trace, fsVars, osEnv, api_key, openai_api_key,
                 motd_fragment, selected_motd, kairos_id, user_prompt,
                 response, output_text>>

LoadSeed ==
  /\ pc = "seed"
  /\ IF seedExists
       THEN seed_packet' = SeedText /\ Goto("motd")
       ELSE UNCHANGED seed_packet /\ Goto("no_seed")
  /\ UNCHANGED <<runVars, trace, fsVars, osEnv, api_key, openai_api_key,
                 motd_fragment, selected_motd, kairos_id, user_prompt,
                 response, output_text>>

\* print("... Seed packet not found at: ..."); sys.exit(1)
ReportNoSeed ==
  /\ pc = "no_seed"
  /\ PrintAndExit("exit_notfound")
  /\ UNCHANGED <<runVars, trace, fsVars, osEnv, localVars>>

(***************************************************************************)
(* Step 5: one fragment among motd_dir.glob("*.md"), if there is any.      *)
(***************************************************************************)
EntryName(e) ==
  CASE e = "a.md" -> <<"a", ".md">>
    [] e = "b.md" -> <<"b", ".md">>
    [] OTHER      -> <<"notes", ".txt">>

\* the text of each fragment; b.md is an empty file
FragmentText(name) == IF name = <<"a", ".md">> THEN "World" ELSE ""

Glob(entries) ==
  { EntryName(e) : e \in { x \in entries : EntryName(x)[2] = ".md" } }

\* variant: another spelling of the sentinel
NoMotd_Lower == <<"none">>

NoMotd == <<"None">>

LoadMotd ==
  /\ pc = "motd"
  /\ LET motd_files == Glob(motdNames) IN
       IF motd_files # {}
         THEN \E motd_file \in motd_files :
                /\ selected_motd' = motd_file
                /\ motd_fragment' = FragmentText(motd_file)
         ELSE /\ selected_motd' = NoMotd
              /\ motd_fragment' = ""
  /\ Goto("id")
  /\ UNCHANGED <<runVars, trace, fsVars, osEnv, api_key, openai_api_key,
                 seed_packet, kairos_id, user_prompt, response, output_text>>

(***************************************************************************)
(* Step 6: sha256(time-random).hexdigest()[:8]; any identifier may come    *)
(* out, also one an earlier run had.                                       *)
(***************************************************************************)
GenId ==
  /\ pc = "id"
  /\ kairos_id' \in Ids
  /\ Goto("prompt")
  /\ UNCHANGED <<runVars, trace, fsVars, osEnv, api_key, openai_api_key,
                 seed_packet, motd_fragment, selected_motd, user_prompt,
                 response, output_text>>

(***************************************************************************)
(* Step 7: the user prompt.                                                *)
(***************************************************************************)
MotdBegin == "[MOTD Fragment Begins]"
MotdEnd == "[MOTD Fragment Ends]"
SeedBegin == "[Seed Packet Begins]"
SeedEnd == "[Seed Packet Ends]"

BuildPrompt(fragment, seed) ==
  << "\n", "You are called for, Solaria, ...", "\n\n",
     MotdBegin, "\n", fragment, "\n", MotdEnd, "\n\n",
     SeedBegin, "\n", seed, "\n", SeedEnd, "\n\n",
     "Now speak: ...", "\n" >>

PreparePrompt ==
  /\ pc = "prompt"
  /\ user_prompt' = BuildPrompt(motd_fragment, seed_packet)
  /\ Goto("announce")
  /\ UNCHANGED <<runVars, trace, fsVars, osEnv, api_key, openai_api_key,
                 seed_packet, motd_fragment, selected_motd, kairos_id,
                 response, output_text>>

(***************************************************************************)
(* Step 8: the progress message, then one call of                          *)
(* openai.ChatCompletion.create.  The request goes out and the script      *)
(* waits; the call raises, or it returns a response, which need not have   *)
(* the expected shape.                                                     *)
(***************************************************************************)
\* print("... Invoking Solaria..."), outside the try
Announce ==
  /\ pc = "announce"
  /\ IF stdoutOk THEN Goto("api") ELSE Uncaught
  /\ UNCHANGED <<runVars, trace, fsVars, osEnv, localVars>>

SendRequest ==
  /\ pc = "api"
  /\ Emit(Ev("api"))
  /\ Goto("api_wait")
  /\ UNCHANGED <<runVars, fsVars, osEnv, localVars>>

WellFormed(text) == [choices |-> << [message |-> [content |-> text]] >>]

Malformed ==
  { [id |-> "x"],
    [choices |-> <<>>],
    [choices |-> << [index |-> 0] >>],
    [choices |-> << [message |-> [role |-> "assistant"]] >>] }

Responses == { WellFormed(t) : t \in OutputTexts } \cup Malformed

ApiReturns ==
  /\ pc = "api_wait"
  /\ response' \in Responses
  /\ Goto("extract")
  /\ UNCHANGED <<runVars, trace, fsVars, osEnv, api_key, openai_api_key,
                 seed_packet, motd_fragment, selected_motd, kairos_id,
                 user_prompt, output_text>>

\* variant: the handler falls back to an empty answer and goes on
ApiRaises_Fallback ==
  /\ pc = "api_wait"
  /\ Emit(Ev("raised"))
  /\ response' = WellFormed(<<>>)
  /\ Goto("extract")
  /\ UNCHANGED <<runVars, fsVars, osEnv, api_key, openai_api_key,
                 seed_packet, motd_fragment, selected_motd, kairos_id,
                 user_prompt, output_text>>

\* except Exception as e:
ApiRaises ==
  /\ pc = "api_wait"
  /\ Emit(Ev("raised"))
  /\ Goto("api_failed")
  /\ UNCHANGED <<runVars, fsVars, osEnv, localVars>>

\* print("... Error calling OpenAI API: ..."); sys.exit(1)
ReportApiError ==
  /\ pc = "api_failed"
  /\ PrintAndExit("exit_transport")
  /\ UNCHANGED <<runVars, trace, fsVars, osEnv, localVars>>

(***************************************************************************)
(* Step 9: response["choices"][0]["message"]["content"], then the scroll,  *)
(* then the log, then the final message.                                   *)
(***************************************************************************)
HasContent(r) ==
  /\ "choices" \in DOMAIN r
  /\ Len(r.choices) >= 1
  /\ "message" \in DOMAIN r.choices[1]
  /\ "content" \in DOMAIN r.choices[1].message

\* variant: the log is written first
SaveOrder_LogFirst == <<"log", "scroll">>

\* the two files in the order the script writes them
SaveOrder == <<"scroll", "log">>

AfterSave(which) ==
  IF which = SaveOrder[1] THEN "open_" \o SaveOrder[2] ELSE "final"

\* variant: a response without content counts as an empty text
Extract_Defensive ==
  /\ pc = "extract"
  /\ output_text' = IF HasContent(response)
                      THEN response.choices[1].message.content ELSE <<>>
  /\ Goto("open_" \o SaveOrder[1])
  /\ UNCHANGED <<runVars, trace, fsVars, osEnv, api_key, openai_api_key,
                 seed_packet, motd_fragment, selected_motd, kairos_id,
                 user_prompt, response>>

Extract ==
  /\ pc = "extract"
  /\ IF HasContent(response)
       THEN /\ output_text' = response.choices[1].message.content
            /\ Goto("open_" \o SaveOrder[1])
       ELSE /\ UNCHANGED output_text
            /\ Uncaught
  /\ UNCHANGED <<runVars, trace, fsVars, osEnv, api_key, openai_api_key,
                 seed_packet, motd_fragment, selected_motd, kairos_id,
                 user_prompt, response>>

Put(dir, name, content) ==
  [n \in DOMAIN dir \cup {name} |-> IF n = name THEN content ELSE dir[n]]

ScrollContent(id, text) ==
  <<"# Scroll of Becoming", "\n", "\n",
    "**Kairos ID:**", " ", id, "\n", "\n">> \o text

\* variant: scroll_file names the log instead of the scroll
LogRecord_WrongFile(id, ts, motd) ==
  << <<"kairos_id", <<id>> >>,
     <<"timestamp_utc", <<ts>> >>,
     <<"scroll_file", PathStr(RelativeTo(LogFile(id), base_dir))>>,
     <<"motd_file", motd>>,
     <<"seed_packet", PathStr(RelativeTo(seed_path, base_dir))>>,
     <<"model", <<"gpt-4o">> >> >>

LogRecord(id, ts, motd) ==
  << <<"kairos_id", <<id>> >>,
     <<"timestamp_utc", <<ts>> >>,
     <<"scroll_file", PathStr(RelativeTo(ScrollFile(id), base_dir))>>,
     <<"motd_file", motd>>,
     <<"seed_packet", PathStr(RelativeTo(seed_path, base_dir))>>,
     <<"model", <<"gpt-4o">> >> >>

\* open(scroll_file, "w"): the file exists and is empty
OpenScroll ==
  /\ pc = "open_scroll"
  /\ scrollDir' = Put(scrollDir, ScrollFile(kairos_id)[Len(scroll_dir) + 1],
                      <<>>)
  /\ Emit(<<"open_scroll", ScrollFile(kairos_id)[Len(scroll_dir) + 1]>>)
  /\ Goto("write_scroll")
  /\ UNCHANGED <<runVars, pkgVars, envFile, inputFiles, dirs, logDir, osEnv,
                 localVars>>

\* f.write(...) and the end of the with-block
WriteScroll ==
  /\ pc = "write_scroll"
  /\ scrollDir' = Put(scrollDir, ScrollFile(kairos_id)[Len(scroll_dir) + 1],
                      ScrollContent(kairos_id, output_text))
  /\ Emit(<<"write_scroll", ScrollFile(kairos_id)[Len(scroll_dir) + 1]>>)
  /\ Goto(AfterSave("scroll"))
  /\ UNCHANGED <<runVars, pkgVars, envFile, inputFiles, dirs, logDir, osEnv,
                 localVars>>

OpenLog ==
  /\ pc = "open_log"
  /\ logDir' = Put(logDir, LogFile(kairos_id)[Len(log_dir) + 1], <<>>)
  /\ Emit(<<"open_log", LogFile(kairos_id)[Len(log_dir) + 1]>>)
  /\ Goto("write_log")
  /\ UNCHANGED <<runVars, pkgVars, envFile, inputFiles, dirs, scrollDir,
                 osEnv, localVars>>

\* json.dump of the record and the end of the with-block
WriteLog ==
  /\ pc = "write_log"
  /\ \E ts \in Timestamps :
       logDir' = Put(logDir, LogFile(kairos_id)[Len(log_dir) + 1],
                     LogRecord(kairos_id, ts, selected_motd))
  /\ Emit(<<"write_log", LogFile(kairos_id)[Len(log_dir) + 1]>>)
  /\ Goto(AfterSave("log"))
  /\ UNCHANGED <<runVars, pkgVars, envFile, inputFiles, dirs, scrollDir,
                 osEnv, localVars>>

\* print("... Solaria has spoken. ..."), then the script ends
Final ==
  /\ pc = "final"
  /\ IF stdoutOk THEN pc' = "done" /\ exitStatus' = 0 ELSE Uncaught
  /\ UNCHANGED <<runVars, trace, fsVars, osEnv, localVars>>

(***************************************************************************)
(* The environment: the operator may kill the process at any point, may    *)
(* start the script again in the same working directory, and may delete    *)
(* .env between two runs.                                                  *)
(***************************************************************************)
\* SIGKILL; sent to the script alone while it waits for pip, pip goes on
Kill ==
  /\ pc \notin Terminal
  /\ pc' = "killed"
  /\ exitStatus' = 137
  /\ \/ UNCHANGED orphans
     \/ /\ pc \in {"pip_openai", "pip_dotenv"}
        /\ orphans' = orphans \cup {IF pc = "pip_openai" THEN "openai"
                                     ELSE "dotenv"}
  /\ UNCHANGED <<runVars, trace, installed, envFile, inputFiles, outFiles,
                 osEnv, localVars>>

NewRun ==
  /\ pc \in Terminal
  /\ run < MaxRuns
  /\ run' = run + 1
  /\ pc' = "install_openai"
  /\ exitStatus' = -1
  /\ trace' = <<>>
  /\ ambient' \in AmbientKeys
  /\ osEnv' = ambient'
  /\ api_key' = <<>>
  /\ openai_api_key' = None
  /\ seed_packet' = ""
  /\ motd_fragment' = ""
  /\ selected_motd' = <<>>
  /\ kairos_id' = ""
  /\ user_prompt' = <<>>
  /\ response' = NoResponse
  /\ output_text' = <<>>
  /\ UNCHANGED <<stdoutOk, fsVars>>

RemoveEnv ==
  /\ pc \in Terminal
  /\ envExists
  /\ envExists' = FALSE
  /\ envLines' = <<>>
  /\ emptyKeyRun' = 0
  /\ UNCHANGED <<pc, exitStatus, runVars, trace, pkgVars, inputFiles,
                 outFiles, osEnv, localVars>>

Next ==
  \/ InstallOpenai
  \/ PipOpenai
  \/ InstallDotenv
  \/ PipDotenv
  \/ OrphanPipEnds
  \/ ShowPrompt
  \/ EnvPresent
  \/ InputReturns
  \/ InputEof
  \/ OpenEnv
  \/ WriteEnv
  \/ LoadKey
  \/ CheckKey
  \/ ReportNoKey
  \/ MkScrollDir
  \/ MkLogDir
  \/ LoadSeed
  \/ ReportNoSeed
  \/ LoadMotd
  \/ GenId
  \/ PreparePrompt
  \/ Announce
  \/ SendRequest
  \/ ApiReturns
  \/ ApiRaises
  \/ ReportApiError
  \/ Extract
  \/ OpenScroll
  \/ WriteScroll
  \/ OpenLog
  \/ WriteLog
  \/ Final
  \/ Kill
  \/ NewRun
  \/ RemoveEnv

Spec == Init /\ [][Next]_vars

(***************************************************************************)
(* Reading back what was written.                                          *)
(***************************************************************************)
\* the value a written record holds for a key; <<>> when it holds none
JsonGet(rec, key) ==
  IF \E i \in 1..Len(rec) : rec[i][1] = key
    THEN rec[CHOOSE i \in 1..Len(rec) : rec[i][1] = key][2]
    ELSE <<>>

\* the identifier on the first "**Kairos ID:**" line of a scroll
ParseKairosId(content) ==
  LET at == { i \in 1..Len(content) :
                content[i] = "**Kairos ID:**" /\ i + 2 <= Len(content) }
  IN  IF at = {} THEN ""
      ELSE content[(CHOOSE i \in at : \A j \in at : i <= j) + 2]

\* the identifier in a file name SCROLL_<id>.md or log_<id>.json
IdOfName(name) == name[2]

\* what the prompt holds between the two fragment markers
FragmentSection(prompt) ==
  LET b == CHOOSE i \in 1..Len(prompt) : prompt[i] = MotdBegin
      e == CHOOSE i \in 1..Len(prompt) : prompt[i] = MotdEnd
  IN  SubSeq(prompt, b + 1, e - 1)

\* a fragment section with nothing but its two line ends
EmptySection == <<"\n", "", "\n">>

FileOps == {"open_scroll", "write_scroll", "open_log", "write_log"}

NoFileWritten == \A i \in 1..Len(trace) : trace[i][1] \notin FileOps

\* the process ended by itself, not by a kill
Ended == pc \in Terminal \ {"killed"}

\* the name of the file the current run wrote with the given operation
Written(op) == trace[CHOOSE i \in Positions(op) : TRUE][2]

\* the positions after the seed check
PastSeed == {"motd", "id", "prompt", "announce", "api", "api_wait",
             "api_failed", "extract", "open_scroll", "write_scroll",
             "open_log", "write_log", "final", "exit_transport", "done"}

\* the positions after the key check
PastKey ==
  PastSeed \cup {"mkdir_scrolls", "mkdir_logs", "seed", "no_seed",
                 "exit_notfound"}

(***************************************************************************)
(* Properties.                                                             *)
(***************************************************************************)

\* C1: when the API call raises, the run has made the call only once, has
\* written neither a scroll nor a log, goes nowhere but to the exit of the
\* handler, and ends with a non-zero status.
C1_ApiErrorNoOutput ==
  Has("raised") =>
    /\ pc \in {"api_failed", "exit_transport", "uncaught", "killed"}
    /\ pc \in Terminal => exitStatus # 0
    /\ (Ended /\ stdoutOk) => pc = "exit_transport"
    /\ NoFileWritten
    /\ Count("api") = 1
    /\ Count("raised") = 1

C1_Witness == Has("raised") /\ pc = "exit_transport" /\ exitStatus = 1

\* C2: a run without the seed document never calls the API, never gets past
\* the seed check, and ends with a non-zero status.
C2_NoSeedNoCall ==
  ~seedExists =>
    /\ ~Has("api")
    /\ NoFileWritten
    /\ pc \notin PastSeed
    /\ pc \in Terminal => exitStatus # 0
    /\ (Ended /\ stdoutOk /\ Has("load") /\ Truthy(openai_api_key))
         => pc = "exit_notfound"

C2_Witness == ~seedExists /\ pc = "exit_notfound" /\ exitStatus = 1

\* C3 as stated: with an empty fragment directory a run that wrote its log
\* has an empty fragment section in the prompt and motd_file = "none".
C3_EmptyDirSentinelLower ==
  (motdNames = {} /\ Has("write_log")) =>
    /\ FragmentSection(user_prompt) = EmptySection
    /\ JsonGet(logDir[Written("write_log")], "motd_file") = <<"none">>

\* C3 amended: with an empty fragment directory a run that wrote its log
\* has an empty fragment section in the prompt and motd_file = "None".
C3_EmptyDirSentinel ==
  (motdNames = {} /\ Has("write_log")) =>
    /\ FragmentSection(user_prompt) = EmptySection
    /\ JsonGet(logDir[Written("write_log")], "motd_file") = <<"None">>

C3_Witness ==
  /\ motdNames = {}
  /\ pc = "done"
  /\ JsonGet(logDir[Written("write_log")], "motd_file") = <<"None">>

\* C4: once the key is loaded and is empty or absent, the run makes no API
\* call and writes no file, does not prompt or load again, never gets past
\* the key check, and ends with a non-zero status.
C4_EmptyKeyAborts ==
  (Has("load") /\ ~Truthy(openai_api_key)) =>
    /\ pc \in {"check", "no_key", "exit_config", "uncaught", "killed"}
    /\ pc \in Terminal => exitStatus # 0
    /\ (Ended /\ stdoutOk) => pc = "exit_config"
    /\ ~Has("api")
    /\ NoFileWritten
    /\ Count("load") = 1
    /\ Count("prompt") <= 1
    /\ \A i \in Positions("prompt") : \A j \in Positions("load") : i < j

C4_Witness ==
  /\ pc = "exit_config"
  /\ Has("write_env")
  /\ openai_api_key = Some(<<>>)

\* C5: a step of the script prompts, or opens .env for writing, only from a
\* state where .env does not exist, and writes only into the .env it has
\* opened after its prompt; where .env exists with a non-empty value the
\* step leaves it as it is and does not prompt.
C5_NoPromptWhenStoreExists ==
  [][ /\ (Count("prompt")' > Count("prompt")
          \/ Count("open_env")' > Count("open_env")) => ~envExists
      /\ Count("write_env")' > Count("write_env")
           => (Has("prompt") /\ Has("open_env") /\ envLines = <<>>)
      /\ (envExists /\ Truthy(DotenvValue(envLines)) /\ pc \notin Terminal)
           => /\ envExists'
              /\ envLines' = envLines
              /\ Count("prompt")' = Count("prompt") ]_vars

C5_Witness ==
  /\ run = 1
  /\ envExists
  /\ Truthy(DotenvValue(envLines))
  /\ ~Has("prompt")
  /\ ~Has("open_env")
  /\ pc = "done"

\* C6: in a run that wrote both files, the identifier read from the scroll's
\* content, the one in both file names and the log's kairos_id are the same,
\* and the log's scroll_file is the path of that scroll under the project.
C6_IdentifierRoundTrip ==
  (Has("write_scroll") /\ Has("write_log")) =>
    LET sname == Written("write_scroll")
        lname == Written("write_log")
        scroll == scrollDir[sname]
        log == logDir[lname]
    IN  /\ ParseKairosId(scroll) = IdOfName(sname)
        /\ IdOfName(lname) = IdOfName(sname)
        /\ JsonGet(log, "kairos_id") = <<IdOfName(sname)>>
        /\ IdOfName(sname) = kairos_id
        /\ sname = ScrollName(kairos_id)
        /\ lname = LogName(kairos_id)
        /\ JsonGet(log, "scroll_file") = <<"scrolls", "/">> \o sname

C6_Witness ==
  /\ pc = "done"
  /\ run = 2
  /\ output_text = <<"**Kairos ID:**", " ", "ffffffff", "\n">>
  /\ ParseKairosId(scrollDir[Written("write_scroll")]) = kairos_id

\* C7 as stated: a run never makes more than one API call, and a run that
\* passed the key check and the seed check and ended by itself made exactly
\* one.
C7_ExactlyOneCall ==
  /\ Count("api") <= 1
  /\ (Ended /\ pc \in PastSeed \cup {"uncaught"} /\ Has("load")
        /\ Truthy(openai_api_key) /\ seedExists)
       => Count("api") = 1

\* C8: when the call returns a response without choices[0].message.content,
\* the run writes no file and can only end by the uncaught error (or a
\* kill), with a non-zero status.
C8_MalformedNoOutput ==
  (response # NoResponse /\ ~HasContent(response)) =>
    /\ ~Has("raised")
    /\ Count("api") = 1
    /\ NoFileWritten
    /\ pc \in {"extract", "uncaught", "killed"}
    /\ pc \in Terminal => exitStatus # 0

C8_Witness ==
  /\ response \in Malformed
  /\ pc = "uncaught"
  /\ exitStatus = 1
  /\ NoFileWritten

\* C9: a log, even one only opened, never exists without its scroll: the
\* run wrote the whole scroll of the same identifier before it opened the
\* log, also when it was killed in between or during a write.
C9_ScrollBeforeLog ==
  /\ \A id \in Ids :
       LogName(id) \in DOMAIN logDir => ScrollName(id) \in DOMAIN scrollDir
  /\ \A i \in Positions("open_log") :
       /\ \E j \in Positions("write_scroll") :
            j < i /\ IdOfName(trace[j][2]) = IdOfName(trace[i][2])
       /\ ScrollName(IdOfName(trace[i][2])) \in DOMAIN scrollDir
       /\ scrollDir[ScrollName(IdOfName(trace[i][2]))] # <<>>

C9_Witness ==
  /\ pc = "killed"
  /\ Has("write_scroll")
  /\ ~Has("open_log")
  /\ ScrollName(kairos_id) \in DOMAIN scrollDir
  /\ LogName(kairos_id) \notin DOMAIN logDir

\* C10: a run whose prompt got an empty answer has, when it loads the key,
\* created .env with an empty value (which stays until the operator deletes
\* the file after the run), and without a key in the environment
\* it ends at the key check with status 1; every later run started without
\* a key in the environment, .env untouched, never prompts, never calls the
\* API and ends at the key check with status 1 too (with the configuration
\* message, when standard output can print it).
C10_EmptyStoreSticks ==
  /\ (Has("prompt") /\ Has("load") /\ api_key = <<>>) =>
       /\ pc \notin Terminal => envExists
       /\ envExists => (DotenvValue(envLines) = Some(<<>>) /\ emptyKeyRun = run)
       /\ Has("write_env")
       /\ openai_api_key = IF ambient = None THEN Some(<<>>) ELSE ambient
       /\ ambient = None =>
            /\ pc \notin PastKey
            /\ Ended => exitStatus = 1
            /\ (Ended /\ stdoutOk) => pc = "exit_config"
  /\ (emptyKeyRun # 0 /\ run > emptyKeyRun /\ ambient = None) =>
       /\ envExists
       /\ DotenvValue(envLines) = Some(<<>>)
       /\ ~Has("prompt")
       /\ ~Has("open_env")
       /\ ~Has("api")
       /\ pc \notin PastKey
       /\ Ended => exitStatus = 1
       /\ (Ended /\ stdoutOk) => pc = "exit_config"

C10_Witness ==
  /\ emptyKeyRun = 1
  /\ run = 2
  /\ ambient = None
  /\ pc = "exit_config"
  /\ ~Has("prompt")
====
